---- MODULE Spec2Model ----
(***************************************************************************)
(* lizard_fewsjdbc: JdbcSource (models.py).                                *)
(*                                                                         *)
(* A JdbcSource reaches a FEWS-JDBC server through a Jdbc2Ei XML-RPC       *)
(* endpoint.  query() pings the endpoint, makes sure the source's tag is   *)
(* registered there, executes the statement and classifies the result.    *)
(* The get_* methods are lookups on top of query(), most of them backed    *)
(* by the shared Django cache.                                             *)
(*                                                                         *)
(* Callers are request threads.  A caller's position inside query() is    *)
(* its pc: every remote round trip (Ping, Config.get, Config.put,          *)
(* Query.execute) is one step, so that callers can interleave there.       *)
(***************************************************************************)
EXTENDS Integers, Sequences, FiniteSets, TLC

VARIABLES
    now,           \* the cache backend's clock, in seconds
    cache,         \* django.core.cache.cache: key -> [value, expires, expiry]
    remoteConfig,  \* the Jdbc2Ei server's configuration: tag -> value
    pc,            \* per caller: where it is inside its current call
    call,          \* per caller: the current (or last) call and its arguments
    ops,           \* per caller: query() entries and remote operations of the call
    ret,           \* per caller: how the last call ended, and when
    ncalls,        \* number of calls started so far
    origin         \* history: key -> slug of the source whose call stored the entry

vars == <<now, cache, remoteConfig, pc, call, ops, ret, ncalls, origin>>

(***************************************************************************)
(* Bounds of the model.                                                    *)
(***************************************************************************)
MaxCalls == 2          \* calls started in one behaviour
MaxTicks == 2          \* clock ticks in one behaviour
MaxRecords == 3        \* rows of a filters table in SpecTree

(***************************************************************************)
(* Python values.  A value carries its type, so that values of different   *)
(* types compare unequal, as they do in Python.                            *)
(***************************************************************************)
PyNone == <<"none">>
PyInt(n) == <<"int", n>>
PyStr(s) == <<"str", s>>
PyList(seq) == <<"list", seq>>
IsNone(v) == v[1] = "none"
IsInt(v) == v[1] = "int"

\* '%s' % v and str(v)
PyFormat(v) ==
    CASE v[1] = "str" -> v[2]
      [] v[1] = "int" -> ToString(v[2])
      [] OTHER -> "None"

\* bool(v) for the scalars a CharField can hold
Truthy(v) ==
    CASE v[1] = "str" -> v[2] # ""
      [] v[1] = "int" -> v[2] # 0
      [] OTHER -> FALSE

(***************************************************************************)
(* Module constants of models.py.                                          *)
(***************************************************************************)
JDBC_NONE == -999
FILTER_CACHE_KEY == "lizard_fewsjdbc.models.filter_cache_key"
PARAMETER_NAME_CACHE_KEY == "lizard_fewsjdbc.models.parameter_name_cache_key"
LOCATION_CACHE_KEY == "lizard_fewsjdbc.layers.location_cache_key"
\* the timeout get_filter_tree, get_named_parameters and get_parameter_name
\* pass to cache.set
CACHE_TIMEOUT == 8 * 60 * 60
\* one clock tick: half of the timeout
TickSeconds == CACHE_TIMEOUT \div 2

(***************************************************************************)
(* Exceptions.                                                             *)
(***************************************************************************)
\* errors of the socket layer that a remote call can end with
NetworkErrors == {"gaierror", "socket.error", "socket.timeout"}

NetworkError(kind) == [type |-> kind]

\* FewsJdbcNotAvailableError(e): a gaierror subclass wrapping e
FewsJdbcNotAvailableError(e) ==
    [type |-> "FewsJdbcNotAvailableError", cause |-> e]

\* FewsJdbcQueryError(value, query)
FewsJdbcQueryError(value, query) ==
    [type |-> "FewsJdbcQueryError", value |-> value, query |-> query]

Returned(v) == [kind |-> "return", value |-> v]
Raised(e) == [kind |-> "raise", exc |-> e]
Pending == [kind |-> "pending"]
Nothing == [kind |-> "none"]

(***************************************************************************)
(* The configured sources (rows of the JdbcSource table; read-only here).  *)
(* customfilter is the value eval() gives for the stored text, PyNone for  *)
(* a null column.                                                          *)
(***************************************************************************)
CustomFilterList ==
    << [id |-> PyStr("c1"), name |-> PyStr("Custom root"), parentid |-> PyNone],
       [id |-> PyStr("c2"), name |-> PyStr("Custom leaf"), parentid |-> PyStr("c1")] >>

Slugs == {"demo", "custom", "rooted"}

JdbcSource(slug) ==
    CASE slug = "demo" ->
            [slug |-> "demo", jdbc_url |-> "http://jdbc2ei/",
             jdbc_tag_name |-> "tag_demo", connector_string |-> "conn_demo",
             filter_tree_root |-> PyNone,
             usecustomfilter |-> FALSE, customfilter |-> PyNone]
      [] slug = "custom" ->
            [slug |-> "custom", jdbc_url |-> "http://jdbc2ei/",
             jdbc_tag_name |-> "tag_custom", connector_string |-> "conn_custom",
             filter_tree_root |-> PyStr("c1"),
             usecustomfilter |-> TRUE, customfilter |-> PyList(CustomFilterList)]
      [] OTHER ->
            [slug |-> "rooted", jdbc_url |-> "http://jdbc2ei/",
             jdbc_tag_name |-> "tag_rooted", connector_string |-> "conn_rooted",
             filter_tree_root |-> PyStr("1"),
             usecustomfilter |-> FALSE, customfilter |-> PyList(CustomFilterList)]

Tags == {JdbcSource(s).jdbc_tag_name : s \in Slugs}
NotRegistered == "<absent>"

(***************************************************************************)
(* lizard_map.operations: unique_list, named_list, tree_from_list.         *)
(***************************************************************************)
RECURSIVE unique_list(_)
unique_list(rows) ==
    IF rows = << >> THEN << >>
    ELSE LET n == Len(rows)
             front == unique_list(SubSeq(rows, 1, n - 1))
         IN IF \E i \in 1..Len(front) : front[i] = rows[n]
            THEN front
            ELSE Append(front, rows[n])

\* zips every row with the column names
named_list(rows, names) ==
    [i \in 1..Len(rows) |->
        [col \in {names[j] : j \in 1..Len(names)} |->
            rows[i][CHOOSE j \in 1..Len(names) : names[j] = col]]]

\* row with one more key set (a dict assignment)
WithKey(row, key, value) ==
    [k \in DOMAIN row \cup {key} |-> IF k = key THEN value ELSE row[k]]

TreeFailed == [ok |-> FALSE, nodes |-> << >>]

\* The nodes tree_from_list builds from rows i.. for one root_parent.  Every
\* level of children is one more Python stack frame; fuel is the number of
\* frames left.  A chain of parents longer than the list has rows repeats an id
\* and never ends: it exhausts the interpreter's stack (RuntimeError).
RECURSIVE TreeRows(_, _, _, _)
TreeRows(named, root_parent, fuel, i) ==
    IF i > Len(named) THEN [ok |-> TRUE, nodes |-> << >>]
    ELSE IF named[i]["parentid"] = root_parent
    THEN LET kids == IF fuel = 0 THEN TreeFailed
                     ELSE TreeRows(named, named[i]["id"], fuel - 1, 1)
             rest == TreeRows(named, root_parent, fuel, i + 1)
         IN IF ~kids.ok \/ ~rest.ok THEN TreeFailed
            ELSE [ok |-> TRUE,
                  nodes |-> <<WithKey(named[i], "children", kids.nodes)>>
                            \o rest.nodes]
    ELSE TreeRows(named, root_parent, fuel, i + 1)

tree_from_list(named, root_parent) ==
    TreeRows(named, root_parent, Len(named) + 1, 1)
(***************************************************************************)
(* Calls: the public methods of a JdbcSource with their arguments.         *)
(***************************************************************************)
Procs == {"p1", "p2"}

FilterIds == {"F1"}
ParameterIds == {"P1"}
LocationIds == {"L1"}
Statements == {"select 1", "select \"x\""}
StartDate == [year |-> 2007, month |-> 1, day |-> 1]
EndDate == [year |-> 2008, month |-> 1, day |-> 10]
OldDate == [year |-> 1800, month |-> 1, day |-> 1]

NoArgs ==
    [slug |-> "", filter_id |-> "", parameter_id |-> "", location_id |-> "",
     start_date |-> StartDate, end_date |-> EndDate, q |-> ""]

MkCall(op, slug, args) ==
    [k \in DOMAIN NoArgs \cup DOMAIN args \cup {"op", "slug"} |->
        CASE k = "op" -> op
          [] k = "slug" -> slug
          [] k \in DOMAIN args -> args[k]
          [] OTHER -> NoArgs[k]]

NoCall == MkCall("none", "", [q |-> ""])

QueryCalls ==
    {MkCall("query", s, [q |-> q]) : s \in Slugs, q \in Statements}

LookupSlugs == {"demo", "rooted"}

ResolverCalls ==
    {MkCall("get_filter_tree", s, [q |-> ""]) : s \in Slugs}
    \cup {MkCall("get_named_parameters", s, [filter_id |-> f]) :
            s \in LookupSlugs, f \in FilterIds}
    \cup {MkCall("get_parameter_name", s, [parameter_id |-> x]) :
            s \in LookupSlugs, x \in ParameterIds}
    \cup {MkCall("get_locations", s, [filter_id |-> f, parameter_id |-> x]) :
            s \in LookupSlugs, f \in FilterIds, x \in ParameterIds}
    \cup {MkCall("get_timeseries", s,
                 [filter_id |-> f, location_id |-> l, parameter_id |-> x]) :
            s \in LookupSlugs, f \in FilterIds, l \in LocationIds, x \in ParameterIds}
    \cup {MkCall("get_timeseries", s,
                 [filter_id |-> f, location_id |-> l, parameter_id |-> x,
                  start_date |-> OldDate]) :
            s \in LookupSlugs, f \in FilterIds, l \in LocationIds, x \in ParameterIds}
    \cup {MkCall("get_unit", s, [parameter_id |-> x]) :
            s \in LookupSlugs, x \in ParameterIds}

CachedOps ==
    {"get_filter_tree", "get_named_parameters", "get_parameter_name",
     "get_locations"}

(***************************************************************************)
(* Cache keys and statements, as the methods compose them.                 *)
(***************************************************************************)
filter_source_cache_key(slug) == FILTER_CACHE_KEY \o "::" \o slug

parameter_cache_key(slug, filter_id) ==
    FILTER_CACHE_KEY \o "::" \o slug \o "::" \o filter_id

parameter_name_cache_key(slug, parameter_id) ==
    PARAMETER_NAME_CACHE_KEY \o "::" \o slug \o "::" \o parameter_id

location_cache_key(filter_id, parameter_id) ==
    LOCATION_CACHE_KEY \o "::" \o filter_id \o "::" \o parameter_id

CacheKey(c) ==
    CASE c.op = "get_filter_tree" -> filter_source_cache_key(c.slug)
      [] c.op = "get_named_parameters" ->
            parameter_cache_key(c.slug, c.filter_id)
      [] c.op = "get_parameter_name" ->
            parameter_name_cache_key(c.slug, c.parameter_id)
      [] OTHER -> location_cache_key(c.filter_id, c.parameter_id)

Pad(n, width) ==
    LET t == ToString(n)
    IN IF Len(t) >= width THEN t
       ELSE SubSeq("0000", 1, width - Len(t)) \o t

\* date.strftime(JDBC_DATE_FORMAT) for a datetime.date; Python 2 refuses
\* years before 1900 with ValueError (ok is FALSE)
strftime(d) ==
    IF d.year < 1900 THEN [ok |-> FALSE, text |-> ""]
    ELSE [ok |-> TRUE,
          text |-> Pad(d.year, 4) \o "-" \o Pad(d.month, 2) \o "-"
                   \o Pad(d.day, 2) \o " 00:00:00"]

\* lines 243-248: get_timeseries cannot format one of its dates
StatementRaises(c) ==
    /\ c.op = "get_timeseries"
    /\ ~strftime(c.start_date).ok \/ ~strftime(c.end_date).ok

\* the statement a method hands to query(), or the ValueError of strftime
Statement(c) ==
    IF StatementRaises(c) THEN Raised([type |-> "ValueError"]) ELSE
    CASE c.op = "get_filter_tree" -> "select id, name, parentid from filters;"
      [] c.op = "get_named_parameters" ->
            "select name, parameterid, parameter from filters where id='"
            \o c.filter_id \o "'"
      [] c.op = "get_parameter_name" ->
            "select name from  parameters where id='" \o c.parameter_id \o "'"
      [] c.op = "get_locations" ->
            "select longitude, latitude, location, locationid from filters "
            \o "where id='" \o c.filter_id \o "' and parameterid='"
            \o c.parameter_id \o "'"
      [] c.op = "get_timeseries" ->
            "select time, value, flag, detection, comment from "
            \o "extimeseries where filterid='" \o c.filter_id
            \o "' and locationid='" \o c.location_id
            \o "' and parameterid='" \o c.parameter_id
            \o "' and time between '" \o strftime(c.start_date).text
            \o "' and '" \o strftime(c.end_date).text \o "'"
      [] c.op = "get_unit" ->
            "select unit from parameters where id='" \o c.parameter_id \o "'"
      [] OTHER -> c.q
(***************************************************************************)
(* The remote side: what the Jdbc2Ei server can answer.                    *)
(***************************************************************************)
FilterRows ==
    { << <<PyStr("1"), PyStr("Rivers"), PyInt(JDBC_NONE)>>,
         <<PyStr("2"), PyStr("Lake A"), PyStr("1")>> >>,
      << <<PyStr("1"), PyStr("Rivers"), PyInt(JDBC_NONE)>>,
         <<PyStr("1"), PyStr("Rivers"), PyInt(JDBC_NONE)>>,
         <<PyStr("3"), PyStr("Orphan"), PyStr("missing")>> >> }

ParameterRows ==
    { << <<PyStr("Rivers"), PyStr("P1"), PyStr("Level")>> >>,
      << <<PyStr("Rivers"), PyStr("P1"), PyStr("Level")>>,
         <<PyStr("Rivers"), PyStr("P1"), PyStr("Level")>>,
         <<PyStr("Rivers"), PyStr("P2"), PyStr("Flow")>> >> }

NameRows == { << <<PyStr("Level")>> >>, << >> }

LocationRows ==
    { << <<PyInt(5), PyInt(52), PyStr("Bridge"), PyStr("L1")>> >>,
      << <<PyInt(5), PyInt(52), PyStr("Bridge"), PyStr("L1")>>,
         <<PyInt(5), PyInt(52), PyStr("Bridge"), PyStr("L1")>> >> }

TimeseriesRows ==
    { << <<<<"DateTime", "20080115T13:00:00">>, PyInt(3), PyInt(0),
           PyInt(0), PyStr("")>> >>,
      << >> }

UnitRows == { << <<PyStr("m")>> >>, << >> }

\* the integers Query.execute returns instead of rows
ErrorCodes == {-1, -2}

TabularResults(c) ==
    CASE c.op = "get_filter_tree" -> FilterRows
      [] c.op = "get_named_parameters" -> ParameterRows
      [] c.op = "get_parameter_name" -> NameRows
      [] c.op = "get_locations" -> LocationRows
      [] c.op = "get_timeseries" -> TimeseriesRows
      [] c.op = "get_unit" -> UnitRows
      [] OTHER -> UnitRows

\* sp.Ping.isAlive('', ''): answers, or the socket layer fails
PingOutcomes == {"ok"} \cup NetworkErrors

\* sp.Config.get('', '', tag): the server answers with the value, or with a
\* document expat cannot parse when the tag is not configured
ConfigGetOutcomes(config, tag) ==
    (IF config[tag] = NotRegistered THEN {"ExpatError"} ELSE {"ok"})
    \cup NetworkErrors

\* sp.Config.put('', '', tag, value)
ConfigPutOutcomes == {"ok"} \cup NetworkErrors

\* sp.Query.execute('', '', q, [tag])
ExecuteOutcomes(c) ==
    {PyList(rows) : rows \in TabularResults(c)}
    \cup {PyInt(n) : n \in ErrorCodes}
    \cup {<<"error", e>> : e \in NetworkErrors}

(***************************************************************************)
(* JdbcSource.query, step by step.                                         *)
(***************************************************************************)
\* lines 88-93: the try block around the liveness probe
PingResult(outcome) ==
    CASE outcome = "ok" -> Nothing
      [] outcome = "gaierror" ->
            Raised(FewsJdbcNotAvailableError(NetworkError(outcome)))
      [] OTHER -> Raised(NetworkError(outcome))

\* a bare except around Config.get: any failure leads to Config.put
ConfigPutOnAnyFailure(outcome) == outcome # "ok"

\* Config.put on every call, whatever Config.get gave
ConfigPutAlways(outcome) == TRUE

\* lines 95-99: the except clause that leads to Config.put
NeedsConfigPut(outcome) == outcome = "ExpatError"

\* lines 95-99: the try block around Config.get
ConfigGetResult(outcome) ==
    IF outcome = "ok" \/ NeedsConfigPut(outcome) THEN Nothing
    ELSE Raised(NetworkError(outcome))

\* Config.put writing the endpoint's address under the tag
ConfigPutArgsUrl(source) == <<source.jdbc_tag_name, source.jdbc_url>>

\* line 99: the arguments of Config.put
ConfigPutArgs(source) == <<source.jdbc_tag_name, source.connector_string>>

\* query() without the isinstance(result, int) check
ClassifyResultUnchecked(result, q) ==
    CASE result[1] = "error" -> Raised(NetworkError(result[2]))
      [] OTHER -> Returned(result)

\* lines 101-105: classification of what Query.execute gave
ClassifyResult(result, q) ==
    CASE result[1] = "error" -> Raised(NetworkError(result[2]))
      [] IsInt(result) -> Raised(FewsJdbcQueryError(result[2], q))
      [] OTHER -> Returned(result)
(***************************************************************************)
(* The Django cache: get and set.  An entry stored with a timeout is gone  *)
(* once the clock reaches its expiry; one stored without is kept until     *)
(* the backend evicts it.                                                  *)
(***************************************************************************)
CacheGet(c, t, key) ==
    IF key \in DOMAIN c /\ (~c[key].expires \/ t < c[key].expiry)
    THEN c[key].value
    ELSE PyNone

CacheSet(c, t, key, value, timeout) ==
    [k \in DOMAIN c \cup {key} |->
        IF k = key
        THEN [value |-> value,
              expires |-> ~IsNone(timeout),
              expiry |-> IF IsNone(timeout) THEN 0 ELSE t + timeout[2]]
        ELSE c[k]]

\* what a method leaves behind: how it ends and the cache.set calls it made
Outcome(out, sets) == [out |-> out, sets |-> sets]
SetCall(key, value, timeout) ==
    [key |-> key, value |-> value, timeout |-> timeout]

(***************************************************************************)
(* The lookups of JdbcSource, from the point where query() has ended.      *)
(***************************************************************************)
\* reverse(url_name, kwargs={'jdbc_source_slug': slug}) with the default
\* url_name of get_filter_tree
reverse(slug) == "/lizard_fewsjdbc.jdbc_source/" \o slug \o "/"

\* the tree built from the filters in reverse order
FilterTreeFromReversed(slug, named_filters, root_parent) ==
    LET n == Len(named_filters)
        with_url ==
            [i \in 1..n |->
                WithKey(named_filters[n + 1 - i], "url",
                        PyStr(reverse(slug) \o "?filter_id="
                              \o PyFormat(named_filters[n + 1 - i]["id"])))]
        tree == tree_from_list(with_url, root_parent)
    IN IF tree.ok
       THEN Outcome(Returned(PyList(tree.nodes)),
                    <<SetCall(filter_source_cache_key(slug),
                              PyList(tree.nodes), PyInt(CACHE_TIMEOUT))>>)
       ELSE Outcome(Raised([type |-> "RuntimeError"]), << >>)

\* lines 150-165: urls, tree, cache.set
FilterTreeFrom(slug, named_filters, root_parent) ==
    LET with_url ==
            [i \in 1..Len(named_filters) |->
                WithKey(named_filters[i], "url",
                        PyStr(reverse(slug) \o "?filter_id="
                              \o PyFormat(named_filters[i]["id"])))]
        tree == tree_from_list(with_url, root_parent)
    IN IF tree.ok
       THEN Outcome(Returned(PyList(tree.nodes)),
                    <<SetCall(filter_source_cache_key(slug),
                              PyList(tree.nodes), PyInt(CACHE_TIMEOUT))>>)
       ELSE Outcome(Raised([type |-> "RuntimeError"]), << >>)

\* the root parent of a source whose filter_tree_root is ignored
RootParentSentinel(source) == PyInt(JDBC_NONE)

\* lines 145-148
RootParent(source) ==
    IF Truthy(source.filter_tree_root) THEN source.filter_tree_root
    ELSE PyInt(JDBC_NONE)

\* get_filter_tree without its except clauses
FilterTreeReraises(exc) == Outcome(Raised(exc), << >>)

\* lines 135-141: the two except clauses of get_filter_tree
FilterTreeDegraded(exc) ==
    CASE exc.type = "FewsJdbcNotAvailableError" ->
            Outcome(Returned(PyList(
                << ("name" :> PyStr("Jdbc2Ei server not available."))
                   @@ ("error" :> exc) >>)), << >>)
      [] exc.type = "FewsJdbcQueryError" ->
            Outcome(Returned(PyList(
                << ("name" :> PyStr("Jdbc data source not available."))
                   @@ ("error code" :> exc) >>)), << >>)
      [] OTHER -> Outcome(Raised(exc), << >>)

\* get_filter_tree storing the one-node list of a failed query as its tree
get_filter_tree_stores_degraded(c, qres) ==
    IF qres.kind = "raise"
    THEN LET degraded == FilterTreeDegraded(qres.exc)
         IN IF degraded.out.kind = "return"
            THEN Outcome(degraded.out,
                         <<SetCall(filter_source_cache_key(c.slug),
                                   degraded.out.value, PyInt(CACHE_TIMEOUT))>>)
            ELSE degraded
    ELSE FilterTreeFrom(
            c.slug,
            named_list(unique_list(qres.value[2]),
                       <<"id", "name", "parentid">>),
            RootParent(JdbcSource(c.slug)))

\* lines 132-165, after self.query(...)
get_filter_tree_after(c, qres) ==
    IF qres.kind = "raise" THEN FilterTreeDegraded(qres.exc)
    ELSE FilterTreeFrom(
            c.slug,
            named_list(unique_list(qres.value[2]),
                       <<"id", "name", "parentid">>),
            RootParent(JdbcSource(c.slug)))

\* get_named_parameters without its cache.set
get_named_parameters_no_store(c, qres) ==
    IF qres.kind = "raise" THEN Outcome(qres, << >>)
    ELSE Outcome(Returned(PyList(named_list(unique_list(qres.value[2]),
                                 <<"name", "parameterid", "parameter">>))),
                 << >>)

\* lines 180-187, after self.query(...)
get_named_parameters_after(c, qres) ==
    IF qres.kind = "raise" THEN Outcome(qres, << >>)
    ELSE LET named_parameters ==
                PyList(named_list(unique_list(qres.value[2]),
                                  <<"name", "parameterid", "parameter">>))
         IN Outcome(Returned(named_parameters),
                    <<SetCall(parameter_cache_key(c.slug, c.filter_id),
                              named_parameters, PyInt(CACHE_TIMEOUT))>>)

\* get_parameter_name storing the name without a timeout, as get_locations does
get_parameter_name_no_timeout(c, qres) ==
    IF qres.kind = "raise" THEN Outcome(qres, << >>)
    ELSE IF qres.value[2] = << >>
    THEN Outcome(Raised([type |-> "IndexError"]), << >>)
    ELSE LET name == qres.value[2][1][1]
         IN Outcome(Returned(name),
                    <<SetCall(parameter_name_cache_key(c.slug, c.parameter_id),
                              name, PyNone)>>)

\* lines 202-207, after self.query(...)
get_parameter_name_after(c, qres) ==
    IF qres.kind = "raise" THEN Outcome(qres, << >>)
    ELSE IF qres.value[2] = << >>
    THEN Outcome(Raised([type |-> "IndexError"]), << >>)
    ELSE LET name == qres.value[2][1][1]
         IN Outcome(Returned(name),
                    <<SetCall(parameter_name_cache_key(c.slug, c.parameter_id),
                              name, PyInt(CACHE_TIMEOUT))>>)

\* get_locations answering a failed query with no locations
get_locations_swallows(c, qres) ==
    IF qres.kind = "raise" THEN Outcome(Returned(PyList(<< >>)), << >>)
    ELSE Outcome(Returned(PyList(named_list(qres.value[2],
                                 <<"longitude", "latitude",
                                   "location", "locationid">>))), << >>)

\* get_locations with the unique_list of get_named_parameters
get_locations_dedups(c, qres) ==
    IF qres.kind = "raise" THEN Outcome(qres, << >>)
    ELSE LET named_locations ==
                PyList(named_list(unique_list(qres.value[2]),
                                  <<"longitude", "latitude",
                                    "location", "locationid">>))
         IN Outcome(Returned(named_locations),
                    <<SetCall(location_cache_key(c.filter_id, c.parameter_id),
                              named_locations, PyNone)>>)

\* lines 227-233, after self.query(...)
get_locations_after(c, qres) ==
    IF qres.kind = "raise" THEN Outcome(qres, << >>)
    ELSE LET named_locations ==
                PyList(named_list(qres.value[2],
                                  <<"longitude", "latitude",
                                    "location", "locationid">>))
         IN Outcome(Returned(named_locations),
                    <<SetCall(location_cache_key(c.filter_id, c.parameter_id),
                              named_locations, PyNone)>>)

\* lines 253-256: the compact remote time made an ISO date-time
parse_time(time) ==
    LET date_time == time[2]
    IN <<"datetime",
         SubSeq(date_time, 1, 4) \o "-" \o SubSeq(date_time, 5, 6) \o "-"
         \o SubSeq(date_time, 7, Len(date_time))>>

\* lines 249-257, after self.query(...)
get_timeseries_after(c, qres) ==
    IF qres.kind = "raise" THEN Outcome(qres, << >>)
    ELSE LET result ==
                named_list(qres.value[2],
                           <<"time", "value", "flag", "detection", "comment">>)
         IN Outcome(Returned(PyList(
                [i \in 1..Len(result) |->
                    [result[i] EXCEPT !["time"] = parse_time(@)]])), << >>)

\* get_unit answering an empty result with None
get_unit_or_none(c, qres) ==
    IF qres.kind = "raise" THEN Outcome(qres, << >>)
    ELSE IF qres.value[2] = << >>
    THEN Outcome(Returned(PyNone), << >>)
    ELSE Outcome(Returned(qres.value[2][1][1]), << >>)

\* lines 268-269, after self.query(...)
get_unit_after(c, qres) ==
    IF qres.kind = "raise" THEN Outcome(qres, << >>)
    ELSE IF qres.value[2] = << >>
    THEN Outcome(Raised([type |-> "IndexError"]), << >>)
    ELSE Outcome(Returned(qres.value[2][1][1]), << >>)

\* the rest of the calling method once query() has returned or raised
AfterQuery(c, qres) ==
    CASE c.op = "get_filter_tree" -> get_filter_tree_after(c, qres)
      [] c.op = "get_named_parameters" -> get_named_parameters_after(c, qres)
      [] c.op = "get_parameter_name" -> get_parameter_name_after(c, qres)
      [] c.op = "get_locations" -> get_locations_after(c, qres)
      [] c.op = "get_timeseries" -> get_timeseries_after(c, qres)
      [] c.op = "get_unit" -> get_unit_after(c, qres)
      [] OTHER -> Outcome(qres, << >>)

\* the custom filter giving way to a declared filter_tree_root
UsesCustomFilterUnlessRooted(source) ==
    source.usecustomfilter /\ ~Truthy(source.filter_tree_root)

\* lines 128-130: a source that builds its tree from the custom filter
UsesCustomFilter(source) == source.usecustomfilter

\* The method up to its first remote round trip: the cache lookup and, for
\* get_filter_tree with a custom filter, all of it.  go is TRUE when the
\* method goes on into query().
BeforeQuery(c, cch, t) ==
    LET cached == IF c.op \in CachedOps THEN CacheGet(cch, t, CacheKey(c))
                  ELSE PyNone
        source == JdbcSource(c.slug)
    IN IF StatementRaises(c)
       THEN [go |-> FALSE, end |-> Outcome(Statement(c), << >>)]
       ELSE IF ~IsNone(cached)
       THEN [go |-> FALSE, end |-> Outcome(Returned(cached), << >>)]
       ELSE IF c.op = "get_filter_tree" /\ UsesCustomFilter(source)
       THEN [go |-> FALSE,
             end |-> IF IsNone(source.customfilter)
                     THEN Outcome(Raised([type |-> "TypeError"]), << >>)
                     ELSE FilterTreeFrom(c.slug, source.customfilter[2],
                                         PyNone)]
       ELSE [go |-> TRUE, end |-> Outcome(Pending, << >>)]
(***************************************************************************)
(* State machine.                                                          *)
(***************************************************************************)
EmptyCache == [k \in {} |-> 0]

Ended(out, t) == [out |-> out, at |-> t, evicted |-> FALSE]

Init ==
    /\ now = 0
    /\ cache = EmptyCache
    /\ remoteConfig = [t \in Tags |-> NotRegistered]
    /\ pc = [p \in Procs |-> "idle"]
    /\ call = [p \in Procs |-> NoCall]
    /\ ops = [p \in Procs |-> << >>]
    /\ ret = [p \in Procs |-> Ended(Nothing, 0)]
    /\ ncalls = 0
    /\ origin = EmptyCache

RECURSIVE ApplySets(_, _, _)
ApplySets(c, t, sets) ==
    IF sets = << >> THEN c
    ELSE ApplySets(CacheSet(c, t, sets[1].key, sets[1].value, sets[1].timeout),
                   t, Tail(sets))

\* caller p's call c ends with outcome o
Finish(p, c, o) ==
    /\ pc' = [pc EXCEPT ![p] = "idle"]
    /\ ret' = [ret EXCEPT ![p] = Ended(o.out, now)]
    /\ cache' = ApplySets(cache, now, o.sets)
    /\ origin' = [k \in DOMAIN origin \cup {o.sets[i].key : i \in 1..Len(o.sets)} |->
                    IF \E i \in 1..Len(o.sets) : o.sets[i].key = k
                    THEN c.slug ELSE origin[k]]

\* caller p's query() ends with qres after the remote operation `entry`:
\* the calling method takes over
QueryEnds(p, entry, qres) ==
    /\ ops' = [ops EXCEPT ![p] = @ \o <<entry, <<"end", qres>>>>]
    /\ Finish(p, call[p], AfterQuery(call[p], qres))

\* caller p's query() goes on to the step `next` after the remote operation
QueryGoesOn(p, entry, next) ==
    /\ ops' = [ops EXCEPT ![p] = Append(@, entry)]
    /\ pc' = [pc EXCEPT ![p] = next]
    /\ UNCHANGED <<ret, cache, origin>>

\* A caller enters one of the methods: lines 111-131, 167-179, 189-201,
\* 209-221, 235-249, 259-268, and 77-87 for query() itself.
Call(p, c) ==
    /\ pc[p] = "idle"
    /\ ncalls < MaxCalls
    /\ ncalls' = ncalls + 1
    /\ call' = [call EXCEPT ![p] = c]
    /\ LET b == BeforeQuery(c, cache, now)
       IN IF b.go
          THEN /\ pc' = [pc EXCEPT ![p] = "ping"]
               /\ ret' = [ret EXCEPT ![p] = Ended(Pending, now)]
               /\ ops' = [ops EXCEPT ![p] =
                            << <<"query", Statement(c),
                                 remoteConfig[JdbcSource(c.slug).jdbc_tag_name]>> >>]
               /\ UNCHANGED <<cache, origin>>
          ELSE /\ Finish(p, c, b.end)
               /\ ops' = [ops EXCEPT ![p] = << >>]
    /\ UNCHANGED <<now, remoteConfig>>

\* lines 88-93: sp.Ping.isAlive('', '')
Ping(p) ==
    /\ pc[p] = "ping"
    /\ \E outcome \in PingOutcomes :
          LET r == PingResult(outcome)
          IN IF r.kind = "raise"
             THEN QueryEnds(p, <<"Ping", outcome>>, r)
             ELSE QueryGoesOn(p, <<"Ping", outcome>>, "config_get")
    /\ UNCHANGED <<now, remoteConfig, call, ncalls>>

\* lines 95-98: sp.Config.get('', '', self.jdbc_tag_name)
ConfigGet(p) ==
    /\ pc[p] = "config_get"
    /\ LET tag == JdbcSource(call[p].slug).jdbc_tag_name
       IN \E outcome \in ConfigGetOutcomes(remoteConfig, tag) :
             LET r == ConfigGetResult(outcome)
             IN IF r.kind = "raise"
                THEN QueryEnds(p, <<"ConfigGet", tag, outcome>>, r)
                ELSE QueryGoesOn(p, <<"ConfigGet", tag, outcome>>,
                                 IF NeedsConfigPut(outcome)
                                 THEN "config_put" ELSE "execute")
    /\ UNCHANGED <<now, remoteConfig, call, ncalls>>

\* line 99: sp.Config.put('', '', self.jdbc_tag_name, self.connector_string)
ConfigPut(p) ==
    /\ pc[p] = "config_put"
    /\ LET args == ConfigPutArgs(JdbcSource(call[p].slug))
       IN \E outcome \in ConfigPutOutcomes :
             IF outcome = "ok"
             THEN /\ remoteConfig' = [remoteConfig EXCEPT ![args[1]] = args[2]]
                  /\ QueryGoesOn(p, <<"ConfigPut", args[1], args[2], outcome>>,
                                 "execute")
             ELSE /\ QueryEnds(p, <<"ConfigPut", args[1], args[2], outcome>>,
                               Raised(NetworkError(outcome)))
                  /\ UNCHANGED remoteConfig
    /\ UNCHANGED <<now, call, ncalls>>

\* lines 101-105: sp.Query.execute('', '', q, [self.jdbc_tag_name]) and the
\* classification of its result; the calling method runs to its end.  The
\* trace keeps what the server had configured for the tag when it executed.
\* `results` is what the server may answer.
ExecuteWith(p, results) ==
    /\ pc[p] = "execute"
    /\ LET tag == JdbcSource(call[p].slug).jdbc_tag_name
           q == Statement(call[p])
       IN \E result \in results :
             QueryEnds(p, <<"Execute", q, tag, remoteConfig[tag], result>>,
                       ClassifyResult(result, q))
    /\ UNCHANGED <<now, remoteConfig, call, ncalls>>

Execute(p) == ExecuteWith(p, ExecuteOutcomes(call[p]))

\* the clock of the cache backend advances, between calls and while a caller
\* waits for the remote side
Tick ==
    /\ now < MaxTicks * TickSeconds
    /\ now' = now + TickSeconds
    /\ UNCHANGED <<cache, remoteConfig, pc, call, ops, ret, ncalls, origin>>

\* the cache backend evicts an entry (its own policy)
Evict(key) ==
    /\ key \in DOMAIN cache
    /\ cache' = [k \in DOMAIN cache \ {key} |-> cache[k]]
    /\ origin' = [k \in DOMAIN origin \ {key} |-> origin[k]]
    /\ ret' = [p \in Procs |-> [ret[p] EXCEPT !.evicted = TRUE]]
    /\ UNCHANGED <<now, remoteConfig, pc, call, ops, ncalls>>

(***************************************************************************)
(* Spec: one caller after another uses the lookups of the sources, while   *)
(* the clock advances and the cache backend evicts.                        *)
(***************************************************************************)
Next ==
    \/ \E c \in ResolverCalls : Call("p1", c)
    \/ Ping("p1")
    \/ ConfigGet("p1")
    \/ ConfigPut("p1")
    \/ Execute("p1")
    \/ Tick
    \/ \E key \in DOMAIN cache : Evict(key)

Spec == Init /\ [][Next]_vars

(***************************************************************************)
(* SpecRace: request threads call query() concurrently.                    *)
(***************************************************************************)
NextRace ==
    \/ \E p \in Procs, c \in QueryCalls : Call(p, c)
    \/ \E p \in Procs : Ping(p)
    \/ \E p \in Procs : ConfigGet(p)
    \/ \E p \in Procs : ConfigPut(p)
    \/ \E p \in Procs : Execute(p)

SpecRace == Init /\ [][NextRace]_vars
(***************************************************************************)
(* Reading a caller's trace.                                               *)
(***************************************************************************)
\* the sequential caller of Spec
Caller == "p1"

\* number of entries of a kind in a trace
Count(trace, kind) == Cardinality({i \in 1..Len(trace) : trace[i][1] = kind})

Has(trace, kind) == \E i \in 1..Len(trace) : trace[i][1] = kind

\* caller p has finished a call of one of the methods in `methods`
EndedCall(p, methods) ==
    pc[p] = "idle" /\ call[p].op \in methods /\ ret[p].out.kind # "none"

\* caller p's finished call went into query(), which ended with QueryEnd(p)
QueryEnded(p) == pc[p] = "idle" /\ ops[p] # << >>
QueryEnd(p) == ops[p][Len(ops[p])][2]

GatewayErrors == {"FewsJdbcNotAvailableError", "FewsJdbcQueryError"}

(***************************************************************************)
(* C1.  get_named_parameters called twice in sequence with the same source *)
(* and filter id, the first call fetching from the gateway and ending      *)
(* well, the second within the timeout of the entry and with no eviction   *)
(* in between: one query to the gateway over the two calls (none in the    *)
(* second) and the second call returns what the first returned.            *)
(***************************************************************************)
C1_SecondParametersCallServedFromCache ==
    [][(/\ ncalls' = ncalls + 1
        /\ call[Caller].op = "get_named_parameters"
        /\ call'[Caller] = call[Caller]
        /\ Count(ops[Caller], "query") = 1
        /\ ret[Caller].out.kind = "return"
        /\ ~ret[Caller].evicted
        /\ now - ret[Caller].at < CACHE_TIMEOUT)
       => (/\ pc'[Caller] = "idle"
           /\ ret'[Caller].out = ret[Caller].out
           /\ Count(ops[Caller], "query") + Count(ops'[Caller], "query") = 1)
      ]_vars

\* a second call, later but within the timeout, was served from the entry the
\* first call stored
C1_Witness ==
    /\ ncalls = 2
    /\ EndedCall(Caller, {"get_named_parameters"})
    /\ ops[Caller] = << >>
    /\ ret[Caller].out.kind = "return"
    /\ now > 0
    /\ LET key == CacheKey(call[Caller])
       IN key \in DOMAIN cache /\ cache[key].expiry = CACHE_TIMEOUT
                               /\ cache[key].value = ret[Caller].out.value

(***************************************************************************)
(* C2.  When query() fails with FewsJdbcNotAvailableError or               *)
(* FewsJdbcQueryError inside get_filter_tree (no custom filter, no cached  *)
(* tree), get_filter_tree does not raise: it returns a list of exactly one *)
(* node with a diagnostic name and the error itself.                       *)
(***************************************************************************)
DiagnosticNames ==
    {PyStr("Jdbc2Ei server not available."),
     PyStr("Jdbc data source not available.")}

IsDegradedTree(out, exc) ==
    /\ out.kind = "return"
    /\ out.value[1] = "list"
    /\ Len(out.value[2]) = 1
    /\ LET node == out.value[2][1]
       IN /\ "name" \in DOMAIN node
          /\ node["name"] \in DiagnosticNames
          /\ DOMAIN node \in {{"name", "error"}, {"name", "error code"}}
          /\ \A k \in DOMAIN node \ {"name"} : node[k] = exc

C2_FilterTreeDegrades ==
    \A p \in Procs :
        (/\ EndedCall(p, {"get_filter_tree"})
         /\ QueryEnded(p)
         /\ QueryEnd(p).kind = "raise"
         /\ QueryEnd(p).exc.type \in GatewayErrors)
        => IsDegradedTree(ret[p].out, QueryEnd(p).exc)

\* get_filter_tree ended while the server answered with an error code
C2_Witness ==
    /\ EndedCall(Caller, {"get_filter_tree"})
    /\ QueryEnded(Caller)
    /\ QueryEnd(Caller).kind = "raise"
    /\ QueryEnd(Caller).exc.type = "FewsJdbcQueryError"
    /\ ret[Caller].out.kind = "return"

(***************************************************************************)
(* C3.  get_named_parameters, get_parameter_name, get_locations,           *)
(* get_timeseries and get_unit: when the lookup goes to the gateway and    *)
(* query() fails with FewsJdbcNotAvailableError or FewsJdbcQueryError, the *)
(* call ends with that same error, after exactly one query() and one       *)
(* attempt of each remote operation.                                       *)
(***************************************************************************)
PropagatingMethods ==
    {"get_named_parameters", "get_parameter_name", "get_locations",
     "get_timeseries", "get_unit"}

C3_LookupsPropagateGatewayErrors ==
    \A p \in Procs :
        (/\ EndedCall(p, PropagatingMethods)
         /\ QueryEnded(p)
         /\ QueryEnd(p).kind = "raise"
         /\ QueryEnd(p).exc.type \in GatewayErrors)
        => /\ ret[p].out = QueryEnd(p)
           /\ Count(ops[p], "query") = 1
           /\ Count(ops[p], "Ping") = 1
           /\ Count(ops[p], "Execute") <= 1

\* get_locations ended with the error of an unreachable server
C3_Witness ==
    /\ EndedCall(Caller, {"get_locations"})
    /\ QueryEnded(Caller)
    /\ ret[Caller].out.kind = "raise"
    /\ ret[Caller].out.exc.type = "FewsJdbcNotAvailableError"

(***************************************************************************)
(* C4.  For a source with usecustomfilter set, get_filter_tree never       *)
(* enters query() and issues no remote operation, whatever the cache       *)
(* holds and whatever calls came before.                                   *)
(***************************************************************************)
C4_CustomFilterNeverQueries ==
    \A p \in Procs :
        (call[p].op = "get_filter_tree"
         /\ JdbcSource(call[p].slug).usecustomfilter)
        => (ops[p] = << >> /\ pc[p] = "idle")

\* the tree of the custom source was built (not read from the cache) after an
\* earlier call, without any remote operation
C4_Witness ==
    /\ ncalls = 2
    /\ EndedCall(Caller, {"get_filter_tree"})
    /\ JdbcSource(call[Caller].slug).usecustomfilter
    /\ ret[Caller].out.kind = "return"
    /\ Len(ret[Caller].out.value[2]) = 1
    /\ ret[Caller].out.value[2][1]["id"] = PyStr("c1")
    /\ ops[Caller] = << >>
    /\ remoteConfig # [t \in Tags |-> NotRegistered]
(***************************************************************************)
(* C5.  query(): when Query.execute returns an integer n, query raises     *)
(* FewsJdbcQueryError with value n and the statement it was called with;   *)
(* when Query.execute returns rows, query returns them unchanged.          *)
(***************************************************************************)
\* the Execute entry of caller p's trace, when its query() got that far
ExecuteEntry(p) == ops[p][Len(ops[p]) - 1]
Executed(p) ==
    /\ QueryEnded(p)
    /\ ExecuteEntry(p)[1] = "Execute"
    /\ ExecuteEntry(p)[5][1] # "error"

C5_QueryClassifiesResult ==
    \A p \in Procs :
        (EndedCall(p, {"query"}) /\ Executed(p))
        => LET result == ExecuteEntry(p)[5]
           IN IF result[1] = "int"
              THEN /\ ret[p].out.kind = "raise"
                   /\ ret[p].out.exc.type = "FewsJdbcQueryError"
                   /\ ret[p].out.exc.value = result[2]
                   /\ ret[p].out.exc.query = call[p].q
              ELSE /\ ret[p].out.kind = "return"
                   /\ ret[p].out.value = result

\* query() raised FewsJdbcQueryError for the code -2 with its statement
C5_Witness ==
    \E p \in Procs :
        /\ EndedCall(p, {"query"})
        /\ Executed(p)
        /\ ExecuteEntry(p)[5] = <<"int", -2>>
        /\ ret[p].out.kind = "raise"
        /\ ret[p].out.exc.query = "select \"x\""

(***************************************************************************)
(* C6.  query(): when the liveness probe fails at the network level (the   *)
(* host cannot be reached, its name cannot be resolved), query raises      *)
(* FewsJdbcNotAvailableError wrapping that error and issues no Config.get, *)
(* Config.put or Query.execute.                                            *)
(***************************************************************************)
\* caller p's probe ended with one of `failures`
ProbeFailed(p, failures) ==
    /\ QueryEnded(p)
    /\ ops[p][2][1] = "Ping"
    /\ ops[p][2][2] \in failures

C6_ProbeFailureIsNotAvailable ==
    \A p \in Procs :
        ProbeFailed(p, {"gaierror", "socket.error"})
        => /\ QueryEnd(p).kind = "raise"
           /\ QueryEnd(p).exc =
                [type |-> "FewsJdbcNotAvailableError",
                 cause |-> [type |-> ops[p][2][2]]]
           /\ ~Has(ops[p], "ConfigGet")
           /\ ~Has(ops[p], "ConfigPut")
           /\ ~Has(ops[p], "Execute")

(***************************************************************************)
(* C7.  query(): when the liveness probe or the execution of the statement *)
(* times out, query raises FewsJdbcNotAvailableError as for a host that    *)
(* cannot be reached, and get_filter_tree returns its degraded tree.       *)
(***************************************************************************)
TimedOut(p) ==
    /\ QueryEnded(p)
    /\ \/ ProbeFailed(p, {"socket.timeout"})
       \/ /\ ExecuteEntry(p)[1] = "Execute"
          /\ ExecuteEntry(p)[5] = <<"error", "socket.timeout">>

C7_TimeoutIsNotAvailable ==
    \A p \in Procs :
        TimedOut(p)
        => /\ QueryEnd(p).kind = "raise"
           /\ QueryEnd(p).exc.type = "FewsJdbcNotAvailableError"
           /\ call[p].op = "get_filter_tree" => ret[p].out.kind = "return"

(***************************************************************************)
(* C8.  Within one query() the remote operations come in the order Ping,   *)
(* Config.get, Config.put (optional), Query.execute.  Config.put is issued *)
(* exactly when Config.get failed with ExpatError, and it has ended well   *)
(* before Query.execute is issued; after a Config.get that failed at the   *)
(* network level neither Config.put nor Query.execute is issued.           *)
(***************************************************************************)
C8_RemoteOperationsInOrder ==
    \A p \in Procs :
        \A i \in 1..Len(ops[p]) :
            LET e == ops[p][i]
                before == ops[p][i - 1]
                last == i = Len(ops[p])
            IN /\ e[1] = "query" => i = 1
               /\ e[1] = "Ping" => i = 2
               /\ e[1] = "ConfigGet" =>
                    /\ i = 3 /\ before = <<"Ping", "ok">>
                    /\ e[3] = "ExpatError" =>
                         IF last THEN pc[p] = "config_put"
                         ELSE ops[p][i + 1][1] = "ConfigPut"
                    /\ e[3] \in NetworkErrors =>
                         /\ ~last
                         /\ ops[p][i + 1][1] = "end"
                         /\ pc[p] = "idle"
               /\ e[1] = "ConfigPut" =>
                    /\ i = 4
                    /\ before[1] = "ConfigGet" /\ before[3] = "ExpatError"
               /\ e[1] = "Execute" =>
                    \/ i = 4 /\ before[1] = "ConfigGet" /\ before[3] = "ok"
                    \/ i = 5 /\ before[1] = "ConfigPut" /\ before[4] = "ok"
               /\ e[1] = "end" => last /\ i > 2

\* a query() that went through all four remote operations
C8_Witness ==
    \E p \in Procs :
        /\ QueryEnded(p)
        /\ Len(ops[p]) = 6
        /\ ops[p][3][1] = "ConfigGet" /\ ops[p][3][3] = "ExpatError"
        /\ ops[p][4][1] = "ConfigPut" /\ ops[p][4][4] = "ok"
        /\ ops[p][5][1] = "Execute"

(***************************************************************************)
(* C9.  Against a server that keeps what was written: once a Config.put    *)
(* for a source's tag has ended well, no query() on that source that       *)
(* starts afterwards issues another Config.put.                            *)
(***************************************************************************)
\* what the server had configured for the tag when caller p entered query()
ConfigAtEntry(p) == ops[p][1][3]

C9_NoPutOnceRegistered ==
    \A p \in Procs :
        (ops[p] # << >> /\ ConfigAtEntry(p) # NotRegistered)
        => ~Has(ops[p], "ConfigPut")

\* a query() that started after the tag was registered ran to its
\* Query.execute without a Config.put
C9_Witness ==
    \E p \in Procs :
        /\ QueryEnded(p)
        /\ ConfigAtEntry(p) # NotRegistered
        /\ Has(ops[p], "Execute")
        /\ ~Has(ops[p], "ConfigPut")

(***************************************************************************)
(* C10.  Concurrent query() calls on one source that all find the tag      *)
(* absent: every Config.put writes the tag with the source's connector     *)
(* string, the server's value for the tag ends as that connector string,   *)
(* and every Query.execute is issued while the tag is registered.          *)
(***************************************************************************)
\* the source a tag belongs to
SourceOfTag(tag) == JdbcSource(CHOOSE s \in Slugs : JdbcSource(s).jdbc_tag_name = tag)

C10_RegistrationSafeToRace ==
    /\ \A p \in Procs :
         \A i \in 1..Len(ops[p]) :
            LET e == ops[p][i]
                source == JdbcSource(call[p].slug)
            IN /\ e[1] = "ConfigPut" =>
                    /\ e[2] = source.jdbc_tag_name
                    /\ e[3] = source.connector_string
                    /\ e[4] = "ok" => remoteConfig[e[2]] = source.connector_string
               /\ e[1] = "Execute" =>
                    /\ e[3] = source.jdbc_tag_name
                    /\ e[4] = source.connector_string
    /\ \A tag \in Tags :
         remoteConfig[tag] \in {NotRegistered, SourceOfTag(tag).connector_string}

\* two callers of the same source both found the tag absent, both wrote it
\* and both executed
C10_Witness ==
    /\ call["p1"].slug = call["p2"].slug
    /\ \A p \in Procs :
         /\ QueryEnded(p)
         /\ Len(ops[p]) = 6
         /\ ops[p][3][3] = "ExpatError"
         /\ ops[p][4][1] = "ConfigPut" /\ ops[p][4][4] = "ok"
         /\ ops[p][5][1] = "Execute"
(***************************************************************************)
(* SpecKeys: the cache keys of the cached lookups, composed for lookups    *)
(* whose ids may hold the '::' the keys are joined with.                   *)
(***************************************************************************)
KeyIds == {"a", "a::b", "b::a"}

KeyLookups ==
    {MkCall("get_filter_tree", s, [q |-> ""]) : s \in Slugs}
    \cup {MkCall("get_named_parameters", s, [filter_id |-> f]) :
            s \in LookupSlugs, f \in KeyIds}
    \cup {MkCall("get_parameter_name", s, [parameter_id |-> x]) :
            s \in LookupSlugs, x \in KeyIds}
    \cup {MkCall("get_locations", s, [filter_id |-> f, parameter_id |-> x]) :
            s \in LookupSlugs, f \in KeyIds, x \in KeyIds}

\* lines 124, 175-176, 197-198, 217-219: the method composes its cache key
ComposeKey(p, c) ==
    /\ pc[p] = "idle"
    /\ call' = [call EXCEPT ![p] = c]
    /\ ops' = [ops EXCEPT ![p] = << <<"key", CacheKey(c)>> >>]
    /\ UNCHANGED <<now, cache, remoteConfig, pc, ret, ncalls, origin>>

NextKeys == \E p \in Procs, c \in KeyLookups : ComposeKey(p, c)

SpecKeys == Init /\ [][NextKeys]_vars

\* caller p has composed the key of its lookup
Composed(p) == Len(ops[p]) = 1 /\ ops[p][1][1] = "key"

(***************************************************************************)
(* C11: the cache key is injective on logical lookups: two cached lookups  *)
(* that differ in operation, in source slug or in a lookup parameter       *)
(* (ids may contain '::') have different key strings.                      *)
(***************************************************************************)
C11_KeysInjective ==
    \A p, q \in Procs :
        (Composed(p) /\ Composed(q) /\ call[p] # call[q])
            => ops[p][1][2] # ops[q][1][2]
(***************************************************************************)
(* C12.  get_locations on a cache miss, query() returning rows.            *)
(***************************************************************************)
\* caller p's finished call went to the gateway and got rows back
GotRows(p, methods) ==
    /\ EndedCall(p, methods)
    /\ QueryEnded(p)
    /\ QueryEnd(p).kind = "return"

\* the rows query() returned to caller p
RowsOf(p) == QueryEnd(p).value[2]

\* a row of the locations query under the column names of lines 228-231
NamedLocation(row) ==
    [longitude |-> row[1], latitude |-> row[2],
     location |-> row[3], locationid |-> row[4]]

\* C12 as stated: get_locations on a cache miss returns the de-duplicated
\* named rows: no two entries of the returned list are equal, also when the
\* remote result has duplicate rows
C12_LocationsDeduplicated ==
    \A p \in Procs :
        GotRows(p, {"get_locations"})
        => /\ ret[p].out.kind = "return"
           /\ LET named == ret[p].out.value[2]
              IN \A i, j \in 1..Len(named) : i # j => named[i] # named[j]

\* C12 as the code has it: get_locations on a cache miss returns the named
\* mapping of every row query() returned, one entry per row in the order of
\* the rows, duplicate rows included; the same list is stored in the cache
C12_LocationsNamedRowByRow ==
    \A p \in Procs :
        GotRows(p, {"get_locations"})
        => /\ ret[p].out.kind = "return"
           /\ ret[p].out.value[1] = "list"
           /\ LET named == ret[p].out.value[2]
              IN /\ Len(named) = Len(RowsOf(p))
                 /\ \A i \in 1..Len(named) :
                        named[i] = NamedLocation(RowsOf(p)[i])

\* the remote result had the same row twice and both entries were returned
C12_Witness ==
    /\ GotRows(Caller, {"get_locations"})
    /\ Len(RowsOf(Caller)) = 2
    /\ RowsOf(Caller)[1] = RowsOf(Caller)[2]
    /\ Len(ret[Caller].out.value[2]) = 2
    /\ ret[Caller].out.value[2][1] = ret[Caller].out.value[2][2]
(***************************************************************************)
(* C13.  get_parameter_name (on a cache miss) and get_unit, query()        *)
(* returning rows: with zero rows the call fails with the error of a       *)
(* missing result (Python's IndexError, raised by the [0][0] of lines 205  *)
(* and 269); with at least one row it returns the first column of the      *)
(* first row.                                                              *)
(***************************************************************************)
NotFound == "IndexError"

C13_FirstColumnOrNotFound ==
    \A p \in Procs :
        GotRows(p, {"get_parameter_name", "get_unit"})
        => IF RowsOf(p) = << >>
           THEN /\ ret[p].out.kind = "raise"
                /\ ret[p].out.exc.type = NotFound
           ELSE ret[p].out = Returned(RowsOf(p)[1][1])

\* get_unit got zero rows and failed
C13_Witness ==
    /\ GotRows(Caller, {"get_unit"})
    /\ RowsOf(Caller) = << >>
    /\ ret[Caller].out.kind = "raise"
(***************************************************************************)
(* C14.  get_timeseries is not cached: whatever the cache holds and        *)
(* whatever was called before, every call of get_timeseries enters query() *)
(* (it is never answered from a cache entry), it ends after exactly one    *)
(* query(), and no step of it changes the cache.                           *)
(***************************************************************************)
\* the step is one of the sequential caller: it starts a call or goes on in
\* one (clock ticks and evictions are steps of the cache backend)
CallerStep == ncalls' # ncalls \/ ops'[Caller] # ops[Caller]

C14_TimeseriesNotCached ==
    [][(CallerStep /\ call'[Caller].op = "get_timeseries")
       => (/\ cache' = cache
           /\ ncalls' # ncalls
                => /\ pc'[Caller] = "ping"
                   /\ Count(ops'[Caller], "query") = 1
           /\ pc'[Caller] = "idle"
                => /\ Count(ops'[Caller], "query") = 1
                   /\ Has(ops'[Caller], "end"))
      ]_vars
(***************************************************************************)
(* C15.  The entries get_filter_tree, get_named_parameters and             *)
(* get_parameter_name store expire 8 hours after the store.  A call that   *)
(* ends well after building its value stores it with that expiry.  The     *)
(* same lookup repeated (no eviction in between) less than 8 hours after   *)
(* the store is served from the cache; repeated at or after 8 hours it is  *)
(* not: it goes into query() again, or, for a source with custom filter,   *)
(* builds the tree again and stores it afresh.                             *)
(***************************************************************************)
EightHours == 8 * 60 * 60

TtlOps == {"get_filter_tree", "get_named_parameters", "get_parameter_name"}

\* the sequential caller's last call built its value and stored it: it got
\* rows from the gateway and returned, or it was the first call of all and
\* built the tree from the custom filter
StoredItsValue ==
    /\ EndedCall(Caller, TtlOps)
    /\ ret[Caller].out.kind = "return"
    /\ \/ QueryEnded(Caller) /\ QueryEnd(Caller).kind = "return"
       \/ UsesCustomFilter(JdbcSource(call[Caller].slug)) /\ ncalls = 1

C15_EntriesExpireAfterEightHours ==
    [][LET key == CacheKey(call'[Caller])
           age == now - ret[Caller].at
       IN /\ (CallerStep /\ pc'[Caller] = "idle" /\ StoredItsValue')
                => /\ key \in DOMAIN cache'
                   /\ cache'[key] = [value |-> ret'[Caller].out.value,
                                     expires |-> TRUE,
                                     expiry |-> now + EightHours]
          /\ (/\ ncalls' = ncalls + 1
              /\ call'[Caller] = call[Caller]
              /\ StoredItsValue
              /\ ~ret[Caller].evicted)
                => IF age < EightHours
                   THEN /\ pc'[Caller] = "idle"
                        /\ ops'[Caller] = << >>
                        /\ ret'[Caller].out = ret[Caller].out
                        /\ cache' = cache
                   ELSE IF UsesCustomFilter(JdbcSource(call[Caller].slug))
                   THEN /\ pc'[Caller] = "idle"
                        /\ cache'[key].expiry = now + EightHours
                   ELSE /\ pc'[Caller] = "ping"
                        /\ Count(ops'[Caller], "query") = 1
      ]_vars

\* 8 hours after an entry was stored the same lookup has gone into query()
\* again
C15_Witness ==
    /\ now = EightHours
    /\ pc[Caller] = "ping"
    /\ call[Caller].op \in TtlOps
    /\ LET key == CacheKey(call[Caller])
       IN /\ key \in DOMAIN cache
          /\ cache[key].expires
          /\ cache[key].expiry = now
(***************************************************************************)
(* SpecTree: get_filter_tree against a server whose filters table is any   *)
(* list of up to MaxRecords rows: ids may repeat, a parent may be the      *)
(* -999 of a root, another row, a row that is not there, or the row's own  *)
(* descendant.                                                             *)
(***************************************************************************)
TreeIds == {"1", "2", "3"}
TreeParents == {PyInt(JDBC_NONE), PyStr("1"), PyStr("2"), PyStr("9")}
TreeRecords ==
    {<<PyStr(i), PyStr("Filter " \o i), parent>> : i \in TreeIds, parent \in TreeParents}
FilterTables == UNION {[1..n -> TreeRecords] : n \in 0..MaxRecords}

TreeCalls == {MkCall("get_filter_tree", s, [q |-> ""]) : s \in Slugs}

\* the one call of a behaviour
TreeCall(c) == ncalls = 0 /\ Call(Caller, c)

\* Query.execute answering with a filters table
ExecuteFilters(p) == ExecuteWith(p, {PyList(rows) : rows \in FilterTables})

NextTree ==
    \/ \E c \in TreeCalls : TreeCall(c)
    \/ Ping(Caller)
    \/ ConfigGet(Caller)
    \/ ConfigPut(Caller)
    \/ ExecuteFilters(Caller)

SpecTree == Init /\ [][NextTree]_vars
(***************************************************************************)
(* Reading a filter tree.                                                  *)
(***************************************************************************)
\* the remote record (id, name, parentid) a node was made from
RecordOf(node) == <<node["id"], node["name"], node["parentid"]>>

\* the records at the top level of a list of nodes
TopRecords(nodes) == {RecordOf(nodes[i]) : i \in 1..Len(nodes)}

\* caller p's get_filter_tree went to the gateway, got rows and returned a tree
BuiltTree(p) ==
    /\ GotRows(p, {"get_filter_tree"})
    /\ ret[p].out.kind = "return"

TreeOf(p) == ret[p].out.value[2]

(***************************************************************************)
(* C16.  Root-parent resolution.  Without custom filter the top-level      *)
(* nodes of the returned tree are the remote records, each once, whose     *)
(* parentid is the source's filter_tree_root when one is declared and      *)
(* -999 otherwise.  With custom filter the top-level nodes are the custom  *)
(* records whose parentid is None, whatever filter_tree_root says.         *)
(***************************************************************************)
DeclaredRoot(source) ==
    IF IsNone(source.filter_tree_root) THEN PyInt(-999)
    ELSE source.filter_tree_root

C16_TopLevelIsRootParent ==
    \A p \in Procs :
        /\ BuiltTree(p)
           => LET rows == RowsOf(p)
                  root == DeclaredRoot(JdbcSource(call[p].slug))
                  top == TreeOf(p)
              IN /\ TopRecords(top)
                      = {rows[i] : i \in {j \in 1..Len(rows) : rows[j][3] = root}}
                 /\ \A i, j \in 1..Len(top) :
                        i # j => RecordOf(top[i]) # RecordOf(top[j])
        /\ (/\ EndedCall(p, {"get_filter_tree"})
            /\ JdbcSource(call[p].slug).usecustomfilter)
           => /\ ret[p].out.kind = "return"
              /\ LET custom == JdbcSource(call[p].slug).customfilter[2]
                 IN TopRecords(TreeOf(p))
                      = {RecordOf(custom[i]) :
                            i \in {j \in 1..Len(custom) :
                                      custom[j]["parentid"] = PyNone}}

\* a source with filter_tree_root "1" returned a tree whose only top-level
\* node is the child of "1", while the table also had a -999 row
C16_Witness ==
    /\ BuiltTree(Caller)
    /\ JdbcSource(call[Caller].slug).filter_tree_root = PyStr("1")
    /\ \E i \in 1..Len(RowsOf(Caller)) : RowsOf(Caller)[i][3] = PyInt(-999)
    /\ Len(TreeOf(Caller)) = 1
    /\ TreeOf(Caller)[1]["parentid"] = PyStr("1")
(***************************************************************************)
(* Parent chains in a filters table.                                       *)
(***************************************************************************)
\* the rows whose parentid is the id of a row in S
ChildRows(rows, S) ==
    {i \in 1..Len(rows) : \E j \in S : rows[i][3] = rows[j][1]}

\* S and the rows below it, n levels down
RECURSIVE RowsBelow(_, _, _)
RowsBelow(rows, S, n) ==
    IF n = 0 THEN S ELSE RowsBelow(rows, S \cup ChildRows(rows, S), n - 1)

\* the rows whose chain of parents reaches root
ReachedRows(rows, root) ==
    RowsBelow(rows, {i \in 1..Len(rows) : rows[i][3] = root}, Len(rows))

\* a row reached from root is its own descendant
ReachableCycle(rows, root) ==
    \E i \in ReachedRows(rows, root) :
        i \in RowsBelow(rows, ChildRows(rows, {i}), Len(rows))

\* every record in a list of nodes, at any depth
RECURSIVE RecordsIn(_)
RecordsIn(nodes) ==
    IF nodes = << >> THEN {}
    ELSE {RecordOf(nodes[1])} \cup RecordsIn(nodes[1]["children"])
         \cup RecordsIn(Tail(nodes))

FirstIndex(rows, rec) ==
    CHOOSE i \in 1..Len(rows) :
        rows[i] = rec /\ \A j \in 1..(i - 1) : rows[j] # rec

\* at every level the nodes stand in the order of their rows, and the
\* children of a node are rows whose parentid is the node's id
RECURSIVE InInputOrder(_, _)
InInputOrder(nodes, rows) ==
    /\ \A a, b \in 1..Len(nodes) :
          a < b => FirstIndex(rows, RecordOf(nodes[a]))
                     < FirstIndex(rows, RecordOf(nodes[b]))
    /\ \A a \in 1..Len(nodes) :
          /\ \A k \in 1..Len(nodes[a]["children"]) :
                nodes[a]["children"][k]["parentid"] = nodes[a]["id"]
          /\ InInputOrder(nodes[a]["children"], rows)

(***************************************************************************)
(* C17.  The tree get_filter_tree builds from the rows of the gateway,     *)
(* when no row reached from the root parent is its own descendant: a       *)
(* record is in the tree iff its chain of parents reaches the root parent; *)
(* rows whose parent is no row (orphans) and the rows below them are left  *)
(* out and no error is raised; at every level the nodes keep the order of  *)
(* the rows.                                                               *)
(***************************************************************************)
C17_TreeHoldsReachedRecordsInOrder ==
    \A p \in Procs :
        GotRows(p, {"get_filter_tree"})
        => LET rows == RowsOf(p)
               root == DeclaredRoot(JdbcSource(call[p].slug))
           IN ~ReachableCycle(rows, root)
              => /\ ret[p].out.kind = "return"
                 /\ RecordsIn(TreeOf(p))
                      = {rows[i] : i \in ReachedRows(rows, root)}
                 /\ InInputOrder(TreeOf(p), rows)

\* a tree of one record was returned for a table of three rows: one row's
\* parent is no row, and another row is the child of that orphan
C17_Witness ==
    /\ BuiltTree(Caller)
    /\ Len(RowsOf(Caller)) = 3
    /\ Cardinality(RecordsIn(TreeOf(Caller))) = 1
    /\ \E i, j \in 1..3 :
          /\ RowsOf(Caller)[i][3] = PyStr("9")
          /\ RowsOf(Caller)[j][3] = RowsOf(Caller)[i][1]
          /\ RowsOf(Caller)[i] \notin RecordsIn(TreeOf(Caller))
          /\ RowsOf(Caller)[j] \notin RecordsIn(TreeOf(Caller))
(***************************************************************************)
(* C18.  Tree building ends with a finite tree for every finite filters    *)
(* table and every root parent get_filter_tree can pass (-999, None, a     *)
(* filter_tree_root that is the id of a row), also when the parentids of   *)
(* the rows form a cycle: whenever the gateway returned rows,              *)
(* get_filter_tree returns a tree, and no record is below itself in it.    *)
(***************************************************************************)
\* no node of the list has its own record below it
RECURSIVE Acyclic(_)
Acyclic(nodes) ==
    \A a \in 1..Len(nodes) :
        /\ RecordOf(nodes[a]) \notin RecordsIn(nodes[a]["children"])
        /\ Acyclic(nodes[a]["children"])

C18_TreeBuildingTerminates ==
    \A p \in Procs :
        GotRows(p, {"get_filter_tree"})
        => /\ ret[p].out.kind = "return"
           /\ Acyclic(TreeOf(p))
(***************************************************************************)
(* C19.  Cache isolation between sources: a cached lookup on a source that *)
(* is answered without a gateway query returns an entry that a call on     *)
(* that same source stored; get_locations(A, f, p) is never answered with  *)
(* the locations get_locations(B, f, p) fetched for another source B.      *)
(***************************************************************************)
C19_CacheIsolatedBetweenSources ==
    \A p \in Procs :
        (/\ EndedCall(p, CachedOps)
         /\ ret[p].out.kind = "return"
         /\ ops[p] = << >>
         /\ CacheKey(call[p]) \in DOMAIN origin)
        => origin[CacheKey(call[p])] = call[p].slug
(***************************************************************************)
(* C20.  A cached lookup that fails does not write to the cache: no step   *)
(* of a call of get_filter_tree, get_named_parameters, get_parameter_name  *)
(* or get_locations that ends in an error, or of a get_filter_tree that    *)
(* ends with the one-node list of a failed query, changes the cache; and   *)
(* get_filter_tree called again on the same source after such a list goes  *)
(* into query() again.                                                     *)
(***************************************************************************)
\* the sequential caller's call has ended in an error, or get_filter_tree has
\* ended with the list it returns for a failed query
LookupFailed ==
    /\ EndedCall(Caller, CachedOps)
    /\ \/ ret[Caller].out.kind = "raise"
       \/ /\ call[Caller].op = "get_filter_tree"
          /\ QueryEnded(Caller)
          /\ QueryEnd(Caller).kind = "raise"
          /\ IsDegradedTree(ret[Caller].out, QueryEnd(Caller).exc)

C20_FailedLookupLeavesCache ==
    [][/\ (/\ CallerStep
           /\ call'[Caller].op \in CachedOps
           /\ pc'[Caller] # "idle" \/ LookupFailed')
          => cache' = cache
       /\ (/\ ncalls' = ncalls + 1
           /\ call[Caller].op = "get_filter_tree"
           /\ call'[Caller] = call[Caller]
           /\ LookupFailed)
          => /\ pc'[Caller] = "ping"
             /\ Count(ops'[Caller], "query") = 1
      ]_vars

\* get_filter_tree has ended with the list of a failed query as the second
\* call; the entry the first call stored is still there and no tree is
C20_Witness ==
    /\ ncalls = 2
    /\ LookupFailed
    /\ call[Caller].op = "get_filter_tree"
    /\ ret[Caller].out.kind = "return"
    /\ CacheKey(call[Caller]) \notin DOMAIN cache
    /\ cache # EmptyCache
(***************************************************************************)
(* api/handlers.py: start_end_dates(request).                              *)
(***************************************************************************)
DATE_FORMAT == "%Y-%m-%d"

\* lizard_map.daterange: the default period, as dates
DEFAULT_START == [year |-> 2009, month |-> 1, day |-> 15]
DEFAULT_END == [year |-> 2011, month |-> 10, day |-> 22]

DecimalDigits == "0123456789"

IsDigit(ch) == \E d \in 0..9 : SubSeq(DecimalDigits, d + 1, d + 1) = ch

DigitValue(ch) == CHOOSE d \in 0..9 : SubSeq(DecimalDigits, d + 1, d + 1) = ch

AllDigits(s) == \A i \in 1..Len(s) : IsDigit(SubSeq(s, i, i))

RECURSIVE Number(_)
Number(s) ==
    IF Len(s) = 0 THEN 0
    ELSE 10 * Number(SubSeq(s, 1, Len(s) - 1))
         + DigitValue(SubSeq(s, Len(s), Len(s)))

IsLeap(year) == year % 4 = 0 /\ (year % 100 # 0 \/ year % 400 = 0)

DaysInMonth(year, month) ==
    CASE month \in {4, 6, 9, 11} -> 30
      [] month = 2 -> IF IsLeap(year) THEN 29 ELSE 28
      [] OTHER -> 31

NotParsed == [ok |-> FALSE]

\* the digits of a day field: one or two digits, or a space and one digit
DayDigits(d) ==
    IF Len(d) = 2 /\ SubSeq(d, 1, 1) = " " THEN SubSeq(d, 2, 2) ELSE d

\* time.strptime(data_string, '%Y-%m-%d'): four digits of year, one or two of
\* month (1..12) and of day (1..31, or a space and 1..9), nothing else; the
\* day must exist in the month.  ok is FALSE for ValueError.
strptime(data_string, format) ==
    LET dashes == {i \in 1..Len(data_string) : SubSeq(data_string, i, i) = "-"}
    IN IF format # DATE_FORMAT \/ Cardinality(dashes) # 2 THEN NotParsed
       ELSE LET d1 == CHOOSE i \in dashes : \A j \in dashes : i <= j
                d2 == CHOOSE i \in dashes : \A j \in dashes : j <= i
                Y == SubSeq(data_string, 1, d1 - 1)
                m == SubSeq(data_string, d1 + 1, d2 - 1)
                d == DayDigits(SubSeq(data_string, d2 + 1, Len(data_string)))
            IN IF /\ Len(Y) = 4 /\ AllDigits(Y)
                  /\ Len(m) \in 1..2 /\ AllDigits(m)
                  /\ Len(d) \in 1..2 /\ AllDigits(d)
                  /\ Number(Y) >= 1
                  /\ Number(m) \in 1..12
                  /\ Number(d) \in 1..DaysInMonth(Number(Y), Number(m))
               THEN [ok |-> TRUE, tm_year |-> Number(Y),
                     tm_mon |-> Number(m), tm_mday |-> Number(d)]
               ELSE NotParsed

\* lines 32-39 and 41-48: the parameter as a date, or the default kept
DateParameter(GET, name, default) ==
    IF name \in DOMAIN GET
    THEN LET date == strptime(GET[name], DATE_FORMAT)
         IN IF date.ok
            THEN [year |-> date.tm_year, month |-> date.tm_mon,
                  day |-> date.tm_mday]
            ELSE default
    ELSE default

\* datetime.date: a > b
DateAfter(a, b) ==
    \/ a.year > b.year
    \/ a.year = b.year /\ a.month > b.month
    \/ a.year = b.year /\ a.month = b.month /\ a.day > b.day

\* start_end_dates without the check of lines 50-53
start_end_dates_unchecked(GET) ==
    Returned(<<"tuple", DateParameter(GET, "start", DEFAULT_START),
               DateParameter(GET, "end", DEFAULT_END)>>)

\* lines 29-54
start_end_dates(GET) ==
    LET start_date == DateParameter(GET, "start", DEFAULT_START)
        end_date == DateParameter(GET, "end", DEFAULT_END)
    IN IF DateAfter(start_date, end_date)
       THEN Raised([type |-> "ValueError",
                    start_date |-> start_date, end_date |-> end_date])
       ELSE Returned(<<"tuple", start_date, end_date>>)

(***************************************************************************)
(* SpecDates: requests whose 'start' and 'end' are absent, dates, or text  *)
(* that is no date.                                                        *)
(***************************************************************************)
DateTexts ==
    {"2010-06-15", "2012-01-01", "2008-12-31", "2008-02-29", "2010-6-5",
     "2010-06- 5", "1800-01-01", "2010- 6-15",
     "2010-02-30", "2010-13-01", "15-06-2010", "2010-06-15T00:00", "soon", ""}

Requests ==
    UNION {[names -> DateTexts] : names \in SUBSET {"start", "end"}}

\* a request handler calls start_end_dates(request)
StartEndDates(p, GET) ==
    /\ pc[p] = "idle"
    /\ call' = [call EXCEPT ![p] = MkCall("start_end_dates", "", [GET |-> GET])]
    /\ ret' = [ret EXCEPT ![p] = Ended(start_end_dates(GET), now)]
    /\ UNCHANGED <<now, cache, remoteConfig, pc, ops, ncalls, origin>>

NextDates == \E GET \in Requests : StartEndDates(Caller, GET)

SpecDates == Init /\ [][NextDates]_vars

(***************************************************************************)
(* C21.  start_end_dates: a 'start' or 'end' that is absent or is no date  *)
(* in the form yyyy-mm-dd gives way to DEFAULT_START or DEFAULT_END; when  *)
(* the start so found is later than the end the call fails with            *)
(* ValueError, and otherwise it returns the two dates, so that every pair  *)
(* returned has start <= end.                                              *)
(***************************************************************************)
\* the date each text of DateTexts stands for, if any
DateOfText ==
    [t \in {"2010-06-15", "2012-01-01", "2008-12-31", "2008-02-29", "2010-6-5",
             "2010-06- 5", "1800-01-01"} |->
        CASE t = "2010-06-15" -> [year |-> 2010, month |-> 6, day |-> 15]
          [] t = "1800-01-01" -> [year |-> 1800, month |-> 1, day |-> 1]
          [] t = "2012-01-01" -> [year |-> 2012, month |-> 1, day |-> 1]
          [] t = "2008-12-31" -> [year |-> 2008, month |-> 12, day |-> 31]
          [] t = "2008-02-29" -> [year |-> 2008, month |-> 2, day |-> 29]
          [] OTHER -> [year |-> 2010, month |-> 6, day |-> 5]]

\* what a parameter of the request resolves to
Resolved(GET, name, default) ==
    IF name \in DOMAIN GET /\ GET[name] \in DOMAIN DateOfText
    THEN DateOfText[GET[name]] ELSE default

\* days since a fixed day, for comparing dates (months counted as 31 days)
DayNumber(date) == (date.year * 12 + date.month) * 31 + date.day

C21_StartEndDates ==
    \A p \in Procs :
        EndedCall(p, {"start_end_dates"})
        => LET GET == call[p].GET
               start == Resolved(GET, "start", [year |-> 2009, month |-> 1, day |-> 15])
               end == Resolved(GET, "end", [year |-> 2011, month |-> 10, day |-> 22])
               out == ret[p].out
           IN IF DayNumber(start) > DayNumber(end)
              THEN /\ out.kind = "raise"
                   /\ out.exc.type = "ValueError"
              ELSE /\ out = Returned(<<"tuple", start, end>>)
                   /\ DayNumber(out.value[2]) <= DayNumber(out.value[3])

\* a start that is no date gave way to the default, which is later than the
\* end the request named: ValueError
C21_Witness ==
    /\ EndedCall(Caller, {"start_end_dates"})
    /\ DOMAIN call[Caller].GET = {"start", "end"}
    /\ call[Caller].GET["start"] = "2010-02-30"
    /\ call[Caller].GET["end"] = "2008-12-31"
    /\ ret[Caller].out.kind = "raise"
====
